---- MODULE Spec2Model ----
(***************************************************************************)
(* Model of auxiliary/verify_threshold.py: chi2_cdf_upper_tail and its     *)
(* caller verify_threshold.                                                *)
(*                                                                         *)
(* Python floats are IEEE-754 binary64 values.  TLC's integers are 32 bits *)
(* wide, so a significand (53 bits) is kept as a little-endian sequence of *)
(* limbs in base 2^15, and every float operation is the exact operation on *)
(* these naturals followed by round-to-nearest-even, with subnormals,      *)
(* signed zeros, infinities and NaN.                                       *)
(***************************************************************************)
EXTENDS Integers, Sequences, FiniteSets, Bags, TLC

(***************************************************************************)
(* Natural numbers of any size: <<>> is 0, the last limb is never 0.       *)
(***************************************************************************)
Base == 2^15

\* The loop "while not Done(st): st = F(st)", for a loop that ends within n
\* iterations.  It is evaluated by halving, the first half before the
\* second, so that the evaluation nests only log2(n) deep.  The loops below
\* run it on a tuple holding the loop's variables.
RECURSIVE Loop(_, _, _, _)
Loop(F(_), Done(_), st, n) ==
  IF n = 0 \/ Done(st) THEN st
  ELSE IF n = 1 THEN F(st)
  ELSE CHOOSE r \in {Loop(F, Done, h, n - n \div 2) :
                       h \in {Loop(F, Done, st, n \div 2)}} : TRUE

Min(i, j) == IF i <= j THEN i ELSE j
Max(i, j) == IF i >= j THEN i ELSE j

\* The sequence b without its most significant zero limbs.
TrimSeq(b) ==
  IF \A i \in 1..Len(b) : b[i] = 0 THEN <<>>
  ELSE SubSeq(b, 1, CHOOSE i \in 1..Len(b) :
                      b[i] # 0 /\ \A j \in (i + 1)..Len(b) : b[j] = 0)

Trim(a) == TrimSeq(a \o <<>>)

Limb(a, i) == IF i <= Len(a) THEN a[i] ELSE 0

NatOfInt(n) ==
  IF n = 0 THEN <<>>
  ELSE IF n < Base THEN <<n>>
  ELSE IF n < Base * Base THEN <<n % Base, n \div Base>>
  ELSE <<n % Base, (n \div Base) % Base, n \div (Base * Base)>>

\* The value of a natural of at most two limbs.
IntOfNat(a) == Limb(a, 1) + Base * Limb(a, 2)

\* The sum of F(i) over i in S, for F(i) >= 0: the size of the bag that
\* holds F(i) copies of each i.
SumOver(S, F(_)) ==
  LET v == [i \in S |-> F(i)] \o <<>>
  IN  BagCardinality([i \in {j \in S : v[j] > 0} |-> v[i]])

\* The carry into position i of the sequence c of numbers below
\* 2 * Base - 1: 1 when some lower position j holds Base or more and every
\* position between j and i passes the carry on.
CarryIn(c, i) ==
  IF \E j \in 1..(i - 1) : /\ c[j] >= Base
                           /\ \A l \in (j + 1)..(i - 1) : c[l] = Base - 1
  THEN 1 ELSE 0

\* The natural whose limbs add up as c, a sequence of numbers below
\* 2 * Base - 1.
Propagate(c) ==
  TrimSeq([i \in 1..(Len(c) + 1) |->
             IF i <= Len(c) THEN (c[i] + CarryIn(c, i)) % Base
             ELSE CarryIn(c, i)] \o <<>>)

\* a + b
NatAdd(a, b) ==
  IF a = <<>> THEN b
  ELSE IF b = <<>> THEN a
  ELSE Propagate([i \in 1..Max(Len(a), Len(b)) |->
                    Limb(a, i) + Limb(b, i)] \o <<>>)

\* The borrow from limb i of a - b: 1 when some lower limb j has
\* a[j] < b[j] and the limbs between j and i are equal.
BorrowIn(a, b, i) ==
  IF \E j \in 1..(i - 1) : /\ a[j] < Limb(b, j)
                           /\ \A l \in (j + 1)..(i - 1) : a[l] = Limb(b, l)
  THEN 1 ELSE 0

\* a - b for a >= b.
NatSub(a, b) ==
  IF b = <<>> THEN a
  ELSE IF a = b THEN <<>>
  ELSE TrimSeq([i \in 1..Len(a) |->
                  (a[i] - Limb(b, i) - BorrowIn(a, b, i) + Base) % Base] \o <<>>)

\* -1, 0, 1 as a < b, a = b, a > b.
NatCmp(a, b) ==
  IF a = b THEN 0
  ELSE IF Len(a) # Len(b) THEN (IF Len(a) < Len(b) THEN -1 ELSE 1)
  ELSE IF \E i \in 1..Len(a) : /\ a[i] > b[i]
                               /\ \A j \in (i + 1)..Len(a) : a[j] = b[j]
       THEN 1 ELSE -1

NatLess(a, b) == NatCmp(a, b) = -1
NatLeq(a, b) == NatCmp(a, b) # 1

\* A sequence c of numbers below Base^2 as a natural: the low half of c[i]
\* plus the high half of c[i - 1] at limb i.
Carried(c) ==
  IF c = <<>> THEN <<>>
  ELSE Propagate([i \in 1..(Len(c) + 1) |->
                    (IF i <= Len(c) THEN c[i] % Base ELSE 0)
                    + (IF i > 1 THEN c[i - 1] \div Base ELSE 0)] \o <<>>)

\* a * s for 0 <= s < Base.
NatMulSmall(a, s) ==
  IF a = <<>> THEN <<>> ELSE Carried([i \in 1..Len(a) |-> a[i] * s] \o <<>>)

Zeros(n) == [i \in 1..n |-> 0]

\* a * b, for fewer than Base \div 2 limbs: column k sums the low halves of
\* the limb products a[i] * b[k + 1 - i] and the high halves of those of
\* column k - 1.
NatMul(a, b) ==
  IF a = <<>> \/ b = <<>> THEN <<>>
  ELSE LET Lo(k, i) == IF 1 <= k + 1 - i /\ k + 1 - i <= Len(b)
                       THEN (a[i] * b[k + 1 - i]) % Base ELSE 0
           Hi(k, i) == IF 1 <= k - i /\ k - i <= Len(b)
                       THEN (a[i] * b[k - i]) \div Base ELSE 0
           Col(k) == LET Part(i) == Lo(k, i) + Hi(k, i)
                     IN  SumOver(1..Len(a), Part)
       IN  Carried([k \in 1..(Len(a) + Len(b)) |-> Col(k)] \o <<>>)

\* <<a \div s, a % s>> for 0 < s <= Base, one limb of a at a time from the
\* top; the remainder is an integer.  The loop's state is <<i, remainder,
\* quotient limbs>>.
NatDivSmall(a, s) ==
  IF a = <<>> THEN << <<>>, 0 >>
  ELSE LET Done(st) == st[1] = 0
           Step(st) == <<st[1] - 1, (st[2] * Base + a[st[1]]) % s,
                         <<(st[2] * Base + a[st[1]]) \div s>> \o st[3]>>
           Result(r) == <<Trim(r[3]), r[2]>>
       IN  Result(Loop(Step, Done, <<Len(a), 0, <<>>>>, Len(a)))

\* a * 2^n.
NatShl(a, n) ==
  IF a = <<>> THEN <<>> ELSE Zeros(n \div 15) \o NatMulSmall(a, 2^(n % 15))

\* a \div 2^n.
NatShr(a, n) ==
  IF a = <<>> THEN <<>>
  ELSE LET q == n \div 15
           r == n % 15
       IN  Trim([i \in 1..Max(Len(a) - q, 0) |->
                   a[i + q] \div 2^r + (Limb(a, i + q + 1) % 2^r) * 2^(15 - r)])

\* Whether a % 2^n # 0.
NatLowBits(a, n) ==
  \/ \E i \in 1..(IF n \div 15 < Len(a) THEN n \div 15 ELSE Len(a)) : a[i] # 0
  \/ /\ n \div 15 < Len(a)
     /\ a[n \div 15 + 1] % 2^(n % 15) # 0

NatOdd(a) == a # <<>> /\ a[1] % 2 = 1

\* The number of bits of 0 <= n < Base.
IntBitLen(n) == Cardinality({i \in 0..14 : 2^i <= n})

\* The number of bits of a: 0 for 0, else floor(log2 a) + 1.
NatBitLen(a) == IF a = <<>> THEN 0 ELSE 15 * (Len(a) - 1) + IntBitLen(a[Len(a)])

\* <<q, r - q * b>> for the largest q <= e with q * b <= r.
RECURSIVE NatDigitFrom(_, _, _)
NatDigitFrom(r, b, e) ==
  IF NatLeq(NatMulSmall(b, e), r) THEN <<e, NatSub(r, NatMulSmall(b, e))>>
  ELSE NatDigitFrom(r, b, e - 1)

\* One digit of the long division r \div b, as <<r \div b, r % b>>, for
\* r < b * Base and b with its top limb >= Base \div 2: the estimate from
\* the top limbs is then at most 2 too large.
NatDigit(r, b) ==
  NatDigitFrom(r, b, Min(Base - 1, (Limb(r, Len(b) + 1) * Base + Limb(r, Len(b)))
                                     \div b[Len(b)]))

\* <<an \div bn, (an % bn) \div 2^s>> for bn with its top limb >=
\* Base \div 2: long division, one limb of an at a time from the top.  The
\* loop's state is <<i, remainder, quotient limbs>>.
LongDiv(an, bn, s) ==
  IF Len(an) < Len(bn) THEN << <<>>, NatShr(an, s) >>
  ELSE LET Done(st) == st[1] = 0
           Push(st, d) == <<st[1] - 1, d[2], <<d[1]>> \o st[3]>>
           Step(st) == Push(st, NatDigit(Trim(<<an[st[1]]>> \o st[2]), bn))
           Result(r) == <<Trim(r[3]), NatShr(r[2], s)>>
       IN  Result(Loop(Step, Done, <<Len(an), <<>>, <<>>>>, Len(an)))

\* <<a \div b, a % b>> for b # 0: both are scaled by 2^s to bring the top
\* limb of b to Base \div 2 or more.
NatDivMod(a, b) ==
  IF NatLess(a, b) THEN <<<<>>, a>>
  ELSE LET s == 15 - IntBitLen(b[Len(b)])
       IN  LongDiv(NatShl(a, s), NatShl(b, s), s)


(***************************************************************************)
(* Python floats (IEEE-754 binary64).  A finite float is                   *)
(* (-1)^s * m * 2^e with m < 2^Prec, kept canonical: m >= 2^(Prec-1) unless *)
(* e = EMin (subnormals and zero).                                         *)
(***************************************************************************)
Prec == 53
EMin == -1074
EMax == 971

Fin(s, m, e) == [c |-> "fin", s |-> s, m |-> m, e |-> e]
Zero(s) == Fin(s, <<>>, EMin)
Inf(s) == [c |-> "inf", s |-> s, m |-> <<>>, e |-> 0]
NaN == [c |-> "nan", s |-> 0, m |-> <<>>, e |-> 0]

IsNaN(a) == a.c = "nan"
IsInf(a) == a.c = "inf"
IsFin(a) == a.c = "fin"
IsZero(a) == a.c = "fin" /\ a.m = <<>>

\* A significand of Prec + 1 bits after rounding up is 2^Prec: renormalise;
\* an exponent above EMax overflows to infinity.
Pack(s, m, e) ==
  IF NatBitLen(m) > Prec
  THEN (IF e + 1 > EMax THEN Inf(s) ELSE Fin(s, NatShr(m, 1), e + 1))
  ELSE IF e > EMax THEN Inf(s)
  ELSE Fin(s, m, e)

\* q or q + 1: the nearest of the two to a value q + 1/2 (half and not
\* more), above it (half and more) or below it (not half); ties to even.
Nearest(q, half, more) ==
  IF half /\ (more \/ NatOdd(q)) THEN NatAdd(q, <<1>>) ELSE q

\* The float nearest to (-1)^s * (n + f) * 2^e, ties to even, where f is
\* some fraction in (0, 1) when sticky and 0 otherwise, for n # 0 and a
\* significand that drops the sh lowest bits of n (takes -sh more bits).
RoundAt(s, n, e, sticky, sh) ==
  Pack(s,
       IF sh <= 0 THEN NatShl(n, -sh)
       ELSE Nearest(NatShr(n, sh), NatOdd(NatShr(n, sh - 1)),
                    sticky \/ NatLowBits(n, sh - 1)),
       e + sh)

\* The float nearest to (-1)^s * (n + f) * 2^e.
RoundFloat(s, n, e, sticky) ==
  IF n = <<>> THEN Zero(s)
  ELSE RoundAt(s, n, e, sticky, Max(NatBitLen(n) - Prec, EMin - e))

\* float(n) for a Python int n of at most 45 bits.
FromInt(n) ==
  RoundFloat(IF n < 0 THEN 1 ELSE 0, NatOfInt(IF n < 0 THEN -n ELSE n), 0, FALSE)

FNeg(a) == IF IsNaN(a) THEN a ELSE [a EXCEPT !.s = 1 - a.s]
FAbs(a) == IF IsNaN(a) THEN a ELSE [a EXCEPT !.s = 0]

\* -1, 0, 1 comparing |a| and |b|, neither NaN.
MagCmp(a, b) ==
  IF IsInf(a) \/ IsInf(b)
  THEN (IF IsInf(a) /\ IsInf(b) THEN 0 ELSE IF IsInf(a) THEN 1 ELSE -1)
  ELSE IF a.m # <<>> /\ b.m # <<>> /\ a.e # b.e
  THEN (IF a.e < b.e THEN -1 ELSE 1)
  ELSE NatCmp(a.m, b.m)

\* -1, 0, 1 as a < 0, a = 0, a > 0.
Sign(a) == IF IsZero(a) THEN 0 ELSE IF a.s = 1 THEN -1 ELSE 1

\* -1, 0, 1 comparing a and b, neither NaN.
FCmp(a, b) ==
  IF Sign(a) # Sign(b) THEN (IF Sign(a) < Sign(b) THEN -1 ELSE 1)
  ELSE Sign(a) * MagCmp(a, b)

\* a < b, a <= b, a > b, a >= b, a == b: all false when an operand is NaN.
FLess(a, b) == ~IsNaN(a) /\ ~IsNaN(b) /\ FCmp(a, b) = -1
FLeq(a, b) == ~IsNaN(a) /\ ~IsNaN(b) /\ FCmp(a, b) # 1
FGreater(a, b) == FLess(b, a)
FGeq(a, b) == FLeq(b, a)
FEq(a, b) == ~IsNaN(a) /\ ~IsNaN(b) /\ FCmp(a, b) = 0

\* (-1)^sa * na + (-1)^sb * nb as <<sign, natural>>; an exact zero sum of
\* opposite signs is +0.
SignedSum(sa, na, sb, nb) ==
  IF sa = sb THEN <<sa, NatAdd(na, nb)>>
  ELSE IF na = nb THEN <<0, <<>>>>
  ELSE IF NatLess(nb, na) THEN <<sa, NatSub(na, nb)>>
  ELSE <<sb, NatSub(nb, na)>>

\* The float nearest to the signed natural v times 2^e.
RoundSigned(v, e) == RoundFloat(v[1], v[2], e, FALSE)

\* a + b for finite a, b with a.e >= b.e.
AddAligned(a, b) ==
  IF a.e - b.e > 2 * Prec + 2 THEN a
  ELSE RoundSigned(SignedSum(a.s, NatShl(a.m, a.e - b.e), b.s, b.m), b.e)

FAdd(a, b) ==
  IF IsNaN(a) \/ IsNaN(b) THEN NaN
  ELSE IF IsInf(a) THEN (IF IsInf(b) /\ a.s # b.s THEN NaN ELSE a)
  ELSE IF IsInf(b) THEN b
  ELSE AddAligned(IF a.e >= b.e THEN a ELSE b, IF a.e >= b.e THEN b ELSE a)

FSub(a, b) == FAdd(a, FNeg(b))

FMul(a, b) ==
  IF IsNaN(a) \/ IsNaN(b) THEN NaN
  ELSE IF IsInf(a) \/ IsInf(b)
  THEN (IF IsZero(a) \/ IsZero(b) THEN NaN ELSE Inf((a.s + b.s) % 2))
  ELSE RoundFloat((a.s + b.s) % 2, NatMul(a.m, b.m), a.e + b.e, FALSE)

\* The float nearest to (-1)^s * (qr[1] + f) * 2^e, where the fraction f is
\* 0 exactly when the remainder qr[2] is.
RoundQuotient(s, qr, e) == RoundFloat(s, qr[1], e, qr[2] # <<>>)

\* na / nb for naturals with the quotient scaled up by 2^sh, times 2^e.
DivScaled(s, na, nb, e, sh) ==
  RoundQuotient(s, NatDivMod(NatShl(na, sh), nb), e - sh)

\* a / b for b # 0 (Python raises ZeroDivisionError for b == 0).
FDiv(a, b) ==
  IF IsNaN(a) \/ IsNaN(b) THEN NaN
  ELSE IF IsInf(a) THEN (IF IsInf(b) THEN NaN ELSE Inf((a.s + b.s) % 2))
  ELSE IF IsInf(b) \/ IsZero(a) THEN Zero((a.s + b.s) % 2)
  ELSE DivScaled((a.s + b.s) % 2, a.m, b.m, a.e - b.e,
                 Prec + 3 + NatBitLen(b.m) - NatBitLen(a.m))

\* 10^d for d <= 27.
NatPow10(d) ==
  NatMul(NatMul(NatOfInt(10^(d \div 3)), NatOfInt(10^(d \div 3))),
         NatOfInt(10^(d - 2 * (d \div 3))))

\* The float literal n / 10^d = n * 10^-d (n > 0, n and 10^d below 2^Prec):
\* the float nearest to the decimal value.
Literal(n, d) == DivScaled(0, NatOfInt(n), NatPow10(d), 0, 200)

(***************************************************************************)
(* The math module: log, exp and lgamma.  They are library functions; each *)
(* is modelled as the mathematical function evaluated in fixed point with  *)
(* HP fractional bits (far more than a float holds) and then rounded to    *)
(* the nearest float.  A fixed-point natural n stands for n / 2^HP; a      *)
(* signed one is <<s, n>>.                                                 *)
(***************************************************************************)
HP == 120

HOne == NatShl(<<1>>, HP)

HMul(a, b) == NatShr(NatMul(a, b), HP)

\* a / b in fixed point, b # 0.
HDiv(a, b) == NatDivMod(NatShl(a, HP), b)[1]

SNeg(a) == <<1 - a[1], a[2]>>
SAdd(a, b) == SignedSum(a[1], a[2], b[1], b[2])
SSub(a, b) == SAdd(a, SNeg(b))

SeriesMax == 64

\* sum over j >= 0 of p * y^j / (2j + 1), for y <= 1/9 (the terms vanish
\* within SeriesMax steps); the loop's state is <<j, p * y^j, sum>>.
OddSeries(p, y) ==
  LET Done(st) == st[2] = <<>>
      Step(st) == <<st[1] + 1, HMul(st[2], y),
                    NatAdd(st[3], NatDivSmall(st[2], 2 * st[1] + 1)[1])>>
  IN  Loop(Step, Done, <<0, p, <<>>>>, SeriesMax)[3]

\* 2 atanh(z) = 2 (z + z^3 / 3 + z^5 / 5 + ...) for z <= 1/3.
Atanh2(z) == NatMulSmall(OddSeries(z, HMul(z, z)), 2)

\* ln(m / 2^HP) for 2^HP <= m < 2^(HP+1), as 2 atanh((m - 1) / (m + 1)).
LnMant(m) == Atanh2(HDiv(NatSub(m, HOne), NatAdd(m, HOne)))

\* ln 2 = 2 atanh(1/3).
Ln2 == Atanh2(NatDivSmall(HOne, 3)[1])

\* n scaled to 2^HP <= m < 2^(HP+1), for a natural n # 0.
Mantissa(n) ==
  IF NatBitLen(n) - 1 > HP THEN NatShr(n, NatBitLen(n) - 1 - HP)
  ELSE NatShl(n, HP - (NatBitLen(n) - 1))

\* ln(m / 2^HP) + ex ln 2, signed.
LnSum(m, ex) ==
  SignedSum(0, LnMant(m), IF ex < 0 THEN 1 ELSE 0,
            NatMul(Ln2, NatOfInt(IF ex < 0 THEN -ex ELSE ex)))

\* ln(n * 2^e) for a natural n # 0, signed.
LnOf(n, e) == LnSum(Mantissa(n), e + NatBitLen(n) - 1)

\* The float nearest to a signed fixed-point value that is not itself a float.
FromFixed(a) == RoundFloat(a[1], a[2], -HP, TRUE)

\* An error raised in place of a value.
Raise(name) == [c |-> name, s |-> 0, m |-> <<>>, e |-> 0]
IsError(a) == a.c \in {"ValueError", "OverflowError", "ZeroDivisionError"}

\* A result too large for a float raises OverflowError (math range error).
Overflowing(r) == IF IsInf(r) THEN Raise("OverflowError") ELSE r

\* The fixed-point value of |a| for a finite float a (truncated below 2^-HP).
ToFixed(a) ==
  IF a.e + HP >= 0 THEN NatShl(a.m, a.e + HP) ELSE NatShr(a.m, -(a.e + HP))

One == FromInt(1)
Two == FromInt(2)

\* math.log(t): a float, or ValueError (math domain error) for t <= 0.
MathLog(t) ==
  IF IsNaN(t) THEN NaN
  ELSE IF IsZero(t) \/ t.s = 1 THEN Raise("ValueError")
  ELSE IF IsInf(t) THEN t
  ELSE IF t = One THEN Zero(0)
  ELSE FromFixed(LnOf(t.m, t.e))

\* e^r = sum over j >= 0 of r^j / j!, for 0 <= r <= ln 2; the loop's state
\* is <<j, r^j / j!, sum>>.
ExpSeries(r) ==
  LET Done(st) == st[2] = <<>>
      Step(st) == <<st[1] + 1, NatDivSmall(HMul(st[2], r), st[1] + 1)[1],
                    NatAdd(st[3], st[2])>>
  IN  Loop(Step, Done, <<0, HOne, <<>>>>, SeriesMax)[3]

\* e^y for |y| = qr[1] ln 2 + qr[2]: e^qr[2] * 2^qr[1] for s = 0, and
\* e^(ln 2 - qr[2]) * 2^-(qr[1] + 1) for s = 1.
ExpReduced(s, qr) ==
  RoundFloat(0, ExpSeries(IF s = 1 THEN NatSub(Ln2, qr[2]) ELSE qr[2]),
             (IF s = 1 THEN -(IntOfNat(qr[1]) + 1) ELSE IntOfNat(qr[1])) - HP,
             TRUE)

\* math.exp(y): a float, or OverflowError (math range error) when e^y is
\* too large for a float; e^y too small for a float is 0.0.
MathExp(y) ==
  IF IsNaN(y) THEN NaN
  ELSE IF IsInf(y) THEN (IF y.s = 0 THEN y ELSE Zero(0))
  ELSE IF IsZero(y) THEN One
  ELSE IF y.e > 10 - Prec
  THEN (IF y.s = 0 THEN Raise("OverflowError") ELSE Zero(0))
  ELSE Overflowing(ExpReduced(y.s, NatDivMod(ToFixed(y), Ln2)))

\* atan(1 / n) = sum over j >= 0 of (-1)^j / ((2j + 1) n^(2j + 1)); the
\* loop's state is <<j, 1 / n^(2j + 1), terms added, terms subtracted>>.
AtanInv(n) ==
  LET Done(st) == st[2] = <<>>
      Term(st) == NatDivSmall(st[2], 2 * st[1] + 1)[1]
      Step(st) ==
        <<st[1] + 1, NatDivSmall(NatDivSmall(st[2], n)[1], n)[1],
          IF st[1] % 2 = 0 THEN NatAdd(st[3], Term(st)) ELSE st[3],
          IF st[1] % 2 = 0 THEN st[4] ELSE NatAdd(st[4], Term(st))>>
      Result(r) == NatSub(r[3], r[4])
  IN  Result(Loop(Step, Done, <<0, NatDivSmall(HOne, n)[1], <<>>, <<>>>>,
                  SeriesMax))

\* pi = 16 atan(1/5) - 4 atan(1/239).
Pi == NatSub(NatMulSmall(AtanInv(5), 16), NatMulSmall(AtanInv(239), 4))

\* ln(2 pi) / 2.
HalfLn2Pi == NatShr(LnOf(NatMulSmall(Pi, 2), -HP)[2], 1)

\* B(2j) / (2j (2j - 1)) for j = 1..10, as <<sign, numerator, denominator>>.
StirlingCoeff ==
  << <<0, 1, 12>>, <<1, 1, 360>>, <<0, 1, 1260>>, <<1, 1, 1680>>, <<0, 1, 1188>>,
     <<1, 691, 360360>>, <<0, 1, 156>>, <<1, 3617, 122400>>,
     <<0, 43867, 244188>>, <<1, 174611, 125400>> >>

\* sum over j of StirlingCoeff[j] * p * u^(j - 1), signed; the loop's
\* state is <<j, p * u^(j - 1), sum>>.
StirlingSeries(p, u) ==
  LET Done(st) == st[1] > Len(StirlingCoeff)
      Term(st, c) ==
        <<c[1], NatDivMod(NatMul(st[2], NatOfInt(c[2])), NatOfInt(c[3]))[1]>>
      Step(st) == <<st[1] + 1, HMul(st[2], u),
                    SAdd(st[3], Term(st, StirlingCoeff[st[1]]))>>
  IN  Loop(Step, Done, <<1, p, <<0, <<>>>>>>, Len(StirlingCoeff))[3]

\* (w - 1/2) lw - w + ln(2 pi)/2 + sum B(2j) inv^(2j-1) / (2j (2j-1)),
\* for lw = ln w > 0 and inv = 1 / w.
StirlingSum(w, lw, inv) ==
  SAdd(SSub(<<0, NatAdd(HMul(lw[2], NatSub(w, NatShr(HOne, 1))), HalfLn2Pi)>>,
            <<0, w>>),
       StirlingSeries(inv, HMul(inv, inv)))

\* ln Gamma(w) for fixed-point w >= StirlingMin, by Stirling's series.
Stirling(w) == StirlingSum(w, LnOf(w, -HP), HDiv(HOne, w))

StirlingMin == 32

\* <<w, p>> with w = z + N >= StirlingMin for the least N >= 0 and
\* p = z (z + 1) ... (z + N - 1), for fixed-point z >= 1.
ShiftUp(z) ==
  LET Done(st) == NatLeq(NatMulSmall(HOne, StirlingMin), st[1])
      Step(st) == <<NatAdd(st[1], HOne), HMul(st[2], st[1])>>
  IN  Loop(Step, Done, <<z, HOne>>, StirlingMin)

\* ln Gamma(z) = ln Gamma(w) - ln p for <<w, p>> = ShiftUp(z), as a float.
LgammaShifted(wp) == FromFixed(SSub(Stirling(wp[1]), LnOf(wp[2], -HP)))

\* math.lgamma(z) for a float z >= 1: a float, or OverflowError (math range
\* error) when the result is too large for a float.  The float is the one
\* nearest to ln Gamma(z); a C library's lgamma may be a few units in the
\* last place away from it.
MathLgamma(z) ==
  IF IsNaN(z) \/ IsInf(z) THEN z
  ELSE IF z = One \/ z = Two THEN Zero(0)
  ELSE Overflowing(LgammaShifted(ShiftUp(ToFixed(z))))

\* log2 of a float from its natural logarithm l, signed fixed point.
Log2From(l) == FromFixed(<<l[1], HDiv(l[2], Ln2)>>)

\* math.log2(a) for a finite float a > 0.
MathLog2(a) == IF a = One THEN Zero(0) ELSE Log2From(LnOf(a.m, a.e))

(***************************************************************************)
(* verify_threshold.py.  Every call of chi2_cdf_upper_tail has a frame     *)
(* holding its arguments and locals; pc[f] is the line frame f is about to *)
(* execute, "idle" before the call, "done" after it returned ret[f] and     *)
(* "raised" after it raised ret[f].  A local not yet bound is Unset (0 for *)
(* n).  iters[f] counts the executions of the loop body and prev_term[f]   *)
(* is the term the last loop test looked at; neither is read by the        *)
(* program.                                                                *)
(***************************************************************************)
Unset == [c |-> "unset", s |-> 0, m |-> <<>>, e |-> 0]

\* The loop's tolerance 1e-15 and its bound on n.
Tolerance == Literal(1, 15)
MaxN == 2000

\* verify_threshold's threshold = 50.0, df = 15, target = 1e-5, and the
\* thresholds of its table.
Threshold == FromInt(50)
Df == FromInt(15)
Target == Literal(1, 5)
Thresholds == <<Literal(3770, 2), Literal(4426, 2), Literal(5000, 2), Literal(5649, 2)>>

\* The loop of lines 47-54 as a function: the state <<n, term, sum_val>>
\* after the loop body has run from <<1, 1.0, 1.0>> until Stop holds, for
\* the float arguments tt = t and kk = k.
SeriesLoop(tt, kk, Stop(_)) ==
  LET Body(st) ==
        LET next == FMul(st[2], FDiv(tt, FAdd(kk, FromInt(st[1]))))
        IN  <<st[1] + 1, next, FAdd(st[3], next)>>
  IN  Loop(Body, Stop, <<1, One, One>>, MaxN)

\* S = sum over j = 0..m of the product over i = 1..j of t / (k + i), in the
\* order the loop adds it up.
PartialSum(tt, kk, m) ==
  LET Stop(st) == st[1] > m
  IN  SeriesLoop(tt, kk, Stop)[3]

\* 1 - exp(k ln t - t - lnGamma(k + 1)) * S
UpperTail(tt, kk, S) ==
  FSub(One, FMul(MathExp(FSub(FSub(FMul(kk, MathLog(tt)), tt),
                              MathLgamma(FAdd(kk, One)))), S))

\* What a call chi2_cdf_upper_tail(xx, dd) that runs on its own returns or
\* raises.
Chi2Alone(xx, dd) ==
  LET kk == FDiv(dd, Two)
      tt == FDiv(xx, Two)
      l == MathLog(tt)
      g == MathLgamma(FAdd(kk, One))
      ex == MathExp(FSub(FSub(FMul(kk, l), tt), g))
      Stop(st) == ~(FGreater(FAbs(st[2]), Tolerance) /\ st[1] < MaxN)
  IN  IF FLeq(xx, Zero(0)) THEN One
      ELSE IF IsError(l) THEN l
      ELSE IF IsError(g) THEN g
      ELSE IF IsError(ex) THEN ex
      ELSE FSub(One, FMul(ex, SeriesLoop(tt, kk, Stop)[3]))

VARIABLES pc, x, df, k, t, log_term, sum_val, term, n, cdf, ret, iters, prev_term,
          vpc, fpr, relative_error, entropy_loss, verdict, row, fpr_t

locals == <<x, df, k, t, log_term, sum_val, term, n, cdf, ret, iters, prev_term>>
caller == <<vpc, fpr, relative_error, entropy_loss, verdict, row, fpr_t>>
vars == <<pc, locals, caller>>

Frames == DOMAIN pc

\* The while condition without its bound on n.
LoopCondNoCap(f) == FGreater(FAbs(term[f]), Tolerance)

\* The while condition with 0 in place of the tolerance.
LoopCondNoTolerance(f) == FGreater(FAbs(term[f]), Zero(0)) /\ n[f] < MaxN

\* The while condition of line 51.
LoopCond(f) == FGreater(FAbs(term[f]), Tolerance) /\ n[f] < MaxN

\* chi2_cdf_upper_tail(a.x, a.df) is called in frame f.
Call(f, a) ==
  /\ pc[f] = "idle"
  /\ pc' = [pc EXCEPT ![f] = "l34"]
  /\ x' = [x EXCEPT ![f] = a.x]
  /\ df' = [df EXCEPT ![f] = a.df]
  /\ k' = [k EXCEPT ![f] = Unset]
  /\ t' = [t EXCEPT ![f] = Unset]
  /\ log_term' = [log_term EXCEPT ![f] = Unset]
  /\ sum_val' = [sum_val EXCEPT ![f] = Unset]
  /\ term' = [term EXCEPT ![f] = Unset]
  /\ n' = [n EXCEPT ![f] = 0]
  /\ cdf' = [cdf EXCEPT ![f] = Unset]
  /\ ret' = [ret EXCEPT ![f] = Unset]
  /\ iters' = [iters EXCEPT ![f] = 0]
  /\ prev_term' = [prev_term EXCEPT ![f] = Unset]

\* k = df / 2.0; t = x / 2.0
Scale(f) ==
  /\ pc[f] = "l34"
  /\ k' = [k EXCEPT ![f] = FDiv(df[f], Two)]
  /\ t' = [t EXCEPT ![f] = FDiv(x[f], Two)]
  /\ pc' = [pc EXCEPT ![f] = "l37"]
  /\ UNCHANGED <<x, df, log_term, sum_val, term, n, cdf, ret, iters, prev_term>>

\* Lines 37-38 with the value returned kept in one place for all calls.
CheckXShared(f) ==
  /\ pc[f] = "l37"
  /\ IF FLeq(x[f], Zero(0))
     THEN /\ ret' = [g \in Frames |-> One]
          /\ pc' = [pc EXCEPT ![f] = "done"]
     ELSE /\ pc' = [pc EXCEPT ![f] = "l44"]
          /\ UNCHANGED ret
  /\ UNCHANGED <<x, df, k, t, log_term, sum_val, term, n, cdf, iters, prev_term>>

\* The test of line 37 as "if x < 0".
CheckXStrict(f) ==
  /\ pc[f] = "l37"
  /\ IF FLess(x[f], Zero(0))
     THEN /\ ret' = [ret EXCEPT ![f] = One]
          /\ pc' = [pc EXCEPT ![f] = "done"]
     ELSE /\ pc' = [pc EXCEPT ![f] = "l44"]
          /\ UNCHANGED ret
  /\ UNCHANGED <<x, df, k, t, log_term, sum_val, term, n, cdf, iters, prev_term>>

\* if x <= 0: return 1.0
CheckX(f) ==
  /\ pc[f] = "l37"
  /\ IF FLeq(x[f], Zero(0))
     THEN /\ ret' = [ret EXCEPT ![f] = One]
          /\ pc' = [pc EXCEPT ![f] = "done"]
     ELSE /\ pc' = [pc EXCEPT ![f] = "l44"]
          /\ UNCHANGED ret
  /\ UNCHANGED <<x, df, k, t, log_term, sum_val, term, n, cdf, iters, prev_term>>

\* log_term = k * math.log(t) - t - math.lgamma(k + 1); math.log is called
\* first, and an error of either call leaves the function.
LogTerm(f) ==
  /\ pc[f] = "l44"
  /\ LET l == MathLog(t[f])
         g == MathLgamma(FAdd(k[f], One))
     IN  IF IsError(l)
         THEN /\ ret' = [ret EXCEPT ![f] = l]
              /\ pc' = [pc EXCEPT ![f] = "raised"]
              /\ UNCHANGED log_term
         ELSE IF IsError(g)
         THEN /\ ret' = [ret EXCEPT ![f] = g]
              /\ pc' = [pc EXCEPT ![f] = "raised"]
              /\ UNCHANGED log_term
         ELSE /\ log_term' = [log_term EXCEPT
                                ![f] = FSub(FSub(FMul(k[f], l), t[f]), g)]
              /\ pc' = [pc EXCEPT ![f] = "l47"]
              /\ UNCHANGED ret
  /\ UNCHANGED <<x, df, k, t, sum_val, term, n, cdf, iters, prev_term>>

\* sum_val = 1.0; term = 1.0; n = 1
LoopInit(f) ==
  /\ pc[f] = "l47"
  /\ sum_val' = [sum_val EXCEPT ![f] = One]
  /\ term' = [term EXCEPT ![f] = One]
  /\ n' = [n EXCEPT ![f] = 1]
  /\ pc' = [pc EXCEPT ![f] = "l51"]
  /\ UNCHANGED <<x, df, k, t, log_term, cdf, ret, iters, prev_term>>

\* The loop body without "n += 1".
LoopStepSameN(f) ==
  /\ pc[f] = "l51"
  /\ FGreater(FAbs(term[f]), Tolerance) /\ n[f] < MaxN
  /\ term' = [term EXCEPT ![f] = FMul(term[f], FDiv(t[f], FAdd(k[f], FromInt(n[f]))))]
  /\ sum_val' = [sum_val EXCEPT ![f] = FAdd(sum_val[f], term'[f])]
  /\ iters' = [iters EXCEPT ![f] = iters[f] + 1]
  /\ prev_term' = [prev_term EXCEPT ![f] = term[f]]
  /\ UNCHANGED <<pc, ret, n, x, df, k, t, log_term, cdf>>

\* One pass through the loop body: term *= t / (k + n); sum_val += term;
\* n += 1.  A zero divisor raises ZeroDivisionError.
LoopStep(f) ==
  /\ pc[f] = "l51"
  /\ LoopCond(f)
  /\ LET d == FAdd(k[f], FromInt(n[f]))
         next == FMul(term[f], FDiv(t[f], d))
     IN  IF IsZero(d)
         THEN /\ ret' = [ret EXCEPT ![f] = Raise("ZeroDivisionError")]
              /\ pc' = [pc EXCEPT ![f] = "raised"]
              /\ UNCHANGED <<term, sum_val, n, iters, prev_term>>
         ELSE /\ term' = [term EXCEPT ![f] = next]
              /\ sum_val' = [sum_val EXCEPT ![f] = FAdd(sum_val[f], next)]
              /\ n' = [n EXCEPT ![f] = n[f] + 1]
              /\ iters' = [iters EXCEPT ![f] = iters[f] + 1]
              /\ prev_term' = [prev_term EXCEPT ![f] = term[f]]
              /\ UNCHANGED <<pc, ret>>
  /\ UNCHANGED <<x, df, k, t, log_term, cdf>>

\* The while condition fails.
LoopExit(f) ==
  /\ pc[f] = "l51"
  /\ ~LoopCond(f)
  /\ pc' = [pc EXCEPT ![f] = "l57"]
  /\ UNCHANGED locals

\* cdf = math.exp(log_term) * sum_val
Cdf(f) ==
  /\ pc[f] = "l57"
  /\ LET ex == MathExp(log_term[f])
     IN  IF IsError(ex)
         THEN /\ ret' = [ret EXCEPT ![f] = ex]
              /\ pc' = [pc EXCEPT ![f] = "raised"]
              /\ UNCHANGED cdf
         ELSE /\ cdf' = [cdf EXCEPT ![f] = FMul(ex, sum_val[f])]
              /\ pc' = [pc EXCEPT ![f] = "l60"]
              /\ UNCHANGED ret
  /\ UNCHANGED <<x, df, k, t, log_term, sum_val, term, n, iters, prev_term>>

\* return 1.0 - cdf
Return(f) ==
  /\ pc[f] = "l60"
  /\ ret' = [ret EXCEPT ![f] = FSub(One, cdf[f])]
  /\ pc' = [pc EXCEPT ![f] = "done"]
  /\ UNCHANGED <<x, df, k, t, log_term, sum_val, term, n, cdf, iters, prev_term>>

Step(f) ==
  \/ Scale(f)
  \/ CheckX(f)
  \/ LogTerm(f)
  \/ LoopInit(f)
  \/ LoopStep(f)
  \/ LoopExit(f)
  \/ Cdf(f)
  \/ Return(f)

\* The frame of a call that has returned to verify_threshold is gone.
Discard(f) ==
  /\ pc' = [pc EXCEPT ![f] = "idle"]
  /\ x' = [x EXCEPT ![f] = Unset]
  /\ df' = [df EXCEPT ![f] = Unset]
  /\ k' = [k EXCEPT ![f] = Unset]
  /\ t' = [t EXCEPT ![f] = Unset]
  /\ log_term' = [log_term EXCEPT ![f] = Unset]
  /\ sum_val' = [sum_val EXCEPT ![f] = Unset]
  /\ term' = [term EXCEPT ![f] = Unset]
  /\ n' = [n EXCEPT ![f] = 0]
  /\ cdf' = [cdf EXCEPT ![f] = Unset]
  /\ ret' = [ret EXCEPT ![f] = Unset]
  /\ iters' = [iters EXCEPT ![f] = 0]
  /\ prev_term' = [prev_term EXCEPT ![f] = Unset]

(***************************************************************************)
(* verify_threshold(), the program's main; it runs its calls in frame 1.   *)
(* vpc is the line it is at.  Its prints are not modelled.                 *)
(***************************************************************************)
\* threshold = 50.0; df = 15; fpr = chi2_cdf_upper_tail(threshold, df): the
\* call is made.
VCall ==
  /\ vpc = "l67"
  /\ Call(1, [x |-> Threshold, df |-> Df])
  /\ vpc' = "l85"
  /\ UNCHANGED <<fpr, relative_error, entropy_loss, verdict, row, fpr_t>>

\* The call returns into fpr; error = abs(fpr - target); relative_error =
\* error / target * 100; then the branch on relative_error < 1.
VCheck ==
  /\ vpc = "l85"
  /\ pc[1] \in {"done", "raised"}
  /\ IF pc[1] = "raised"
     THEN /\ vpc' = "raised"
          /\ UNCHANGED <<fpr, relative_error, verdict>>
     ELSE LET error == FAbs(FSub(ret[1], Target))
              rel == FMul(FDiv(error, Target), FromInt(100))
          IN  /\ fpr' = ret[1]
              /\ relative_error' = rel
              /\ verdict' = IF FLess(rel, One) THEN "verified" ELSE "warning"
              /\ vpc' = "l117"
  /\ Discard(1)
  /\ UNCHANGED <<entropy_loss, row, fpr_t>>

\* entropy_loss = -math.log2(1 - fpr); math.log2 raises ValueError at an
\* argument that is not positive.
VEntropy ==
  /\ vpc = "l117"
  /\ LET rest == FSub(One, fpr)
     IN  IF IsNaN(rest) \/ IsInf(rest) \/ IsZero(rest) \/ rest.s = 1
         THEN /\ vpc' = "raised"
              /\ UNCHANGED entropy_loss
         ELSE /\ entropy_loss' = FNeg(MathLog2(rest))
              /\ vpc' = "l143"
  /\ UNCHANGED <<pc, locals, fpr, relative_error, verdict, row, fpr_t>>

\* for t, rate_str, use_case in thresholds: fpr_t = chi2_cdf_upper_tail(t,
\* df): the call is made.
VRow ==
  /\ vpc = "l143"
  /\ row <= Len(Thresholds)
  /\ Call(1, [x |-> Thresholds[row], df |-> Df])
  /\ vpc' = "l145"
  /\ UNCHANGED <<fpr, relative_error, entropy_loss, verdict, row, fpr_t>>

\* The call returns into fpr_t and the loop moves on.
VRowDone ==
  /\ vpc = "l145"
  /\ pc[1] \in {"done", "raised"}
  /\ IF pc[1] = "raised"
     THEN /\ vpc' = "raised"
          /\ UNCHANGED <<fpr_t, row>>
     ELSE /\ fpr_t' = ret[1]
          /\ row' = row + 1
          /\ vpc' = "l143"
  /\ Discard(1)
  /\ UNCHANGED <<fpr, relative_error, entropy_loss, verdict>>

\* The table is complete and verify_threshold returns.
VEnd ==
  /\ vpc = "l143"
  /\ row > Len(Thresholds)
  /\ vpc' = "done"
  /\ UNCHANGED <<pc, locals, fpr, relative_error, entropy_loss, verdict, row, fpr_t>>

(***************************************************************************)
(* The arguments the calls are made with.  MinPos is the least positive    *)
(* float 5e-324 and 1e-323 the next one; 3000.0 is an x at which the loop  *)
(* runs into its bound.                                                    *)
(***************************************************************************)
MinPos == Fin(0, <<1>>, EMin)

Xs == {FromInt(-1), Zero(1), Zero(0), MinPos, Fin(0, <<2>>, EMin), NaN,
       One, Threshold, FromInt(100), FromInt(3000)}


Inputs == [x : Xs, df : {Df}] \cup [x : {Zero(0), One, Threshold}, df : {One}]

\* The arguments of two calls made one after the other.
SeqInputs == [x : {Zero(0), One, Threshold, FromInt(3000)}, df : {Df}]

\* The arguments of calls made at the same time.
ConcInputs == [x : {FromInt(-1), MinPos, One}, df : {Two}]

\* No call has been made and verify_threshold has not started.
InitFrames(fs) ==
  /\ pc = [f \in fs |-> "idle"]
  /\ x = [f \in fs |-> Unset]
  /\ df = [f \in fs |-> Unset]
  /\ k = [f \in fs |-> Unset]
  /\ t = [f \in fs |-> Unset]
  /\ log_term = [f \in fs |-> Unset]
  /\ sum_val = [f \in fs |-> Unset]
  /\ term = [f \in fs |-> Unset]
  /\ n = [f \in fs |-> 0]
  /\ cdf = [f \in fs |-> Unset]
  /\ ret = [f \in fs |-> Unset]
  /\ iters = [f \in fs |-> 0]
  /\ prev_term = [f \in fs |-> Unset]
  /\ vpc = "l67"
  /\ fpr = Unset
  /\ relative_error = Unset
  /\ entropy_loss = Unset
  /\ verdict = "none"
  /\ row = 1
  /\ fpr_t = Unset

Finished(f) == pc[f] \in {"done", "raised"}

\* One run of the program: verify_threshold, or a single call of
\* chi2_cdf_upper_tail with any of the Inputs.
Init == InitFrames({1})

CallAny ==
  /\ vpc = "l67"
  /\ \E a \in Inputs : Call(1, a)
  /\ UNCHANGED caller

Run == Step(1) /\ UNCHANGED caller

Next ==
  \/ CallAny
  \/ Run
  \/ VCall
  \/ VCheck
  \/ VEntropy
  \/ VRow
  \/ VRowDone
  \/ VEnd

Spec == Init /\ [][Next]_vars

\* The lines of chi2_cdf_upper_tail a frame can be at, and whether the call
\* of frame f is under way.
Lines == {"l34", "l37", "l44", "l47", "l51", "l57", "l60", "done", "raised"}
Running(f) == pc[f] \notin {"idle", "done", "raised"}

\* What every step of a call under way does: it moves the call to another
\* line or adds 1 to its n.
Tick ==
  \E f \in Frames :
    /\ Running(f)
    /\ \E p \in Lines : pc' = [pc EXCEPT ![f] = p]
    /\ \E m \in {n[f], n[f] + 1} : n' = [n EXCEPT ![f] = m]

\* The same, with the interpreter going on: a call under way takes its next
\* step.
FairSpec == Init /\ [][Next]_vars /\ WF_<<pc, n>>(Tick)

\* Two calls with the same df, the second made after the first has ended
\* and with an x that is not smaller.
InitSeq == InitFrames({1, 2})

CallSeq(f) ==
  /\ \A g \in Frames : g < f => Finished(g)
  /\ \E a \in SeqInputs :
       /\ \A g \in Frames : g < f => a.df = df[g] /\ FLeq(x[g], a.x)
       /\ Call(f, a)
  /\ UNCHANGED caller

RunSeq(f) ==
  /\ \A g \in Frames : g < f => Finished(g)
  /\ Step(f)
  /\ UNCHANGED caller

NextSeq == \E f \in Frames : CallSeq(f) \/ RunSeq(f)

SpecSeq == InitSeq /\ [][NextSeq]_vars

\* Two calls whose steps interleave in any order.
InitConc == InitFrames({1, 2})

CallConc(f) ==
  /\ \E a \in ConcInputs : Call(f, a)
  /\ UNCHANGED caller

RunConc(f) == Step(f) /\ UNCHANGED caller

NextConc == \E f \in Frames : CallConc(f) \/ RunConc(f)

SpecConc == InitConc /\ [][NextConc]_vars

(***************************************************************************)
(* The properties checked.                                                 *)
(***************************************************************************)
Positive(a) == FGreater(a, Zero(0))
PastLoop(f) == pc[f] \in {"l57", "l60", "done"}

\* C1: a call with x <= 0 that has passed the test of line 37 has returned
\* exactly 1.0, and has computed nothing else: no log_term, no series term,
\* no loop iteration.
C1_NonPositive ==
  \A f \in Frames :
    (pc[f] \notin {"idle", "l34", "l37"} /\ FLeq(x[f], Zero(0)))
      => /\ pc[f] = "done"
         /\ ret[f] = One
         /\ log_term[f] = Unset /\ term[f] = Unset /\ sum_val[f] = Unset
         /\ n[f] = 0 /\ iters[f] = 0

\* A call with x = -0.0 has returned 1.0.
C1_Witness ==
  \E f \in Frames : pc[f] = "done" /\ x[f] = Zero(1) /\ ret[f] = One

\* C2: of two calls with the same df and x1 <= x2 that have both returned,
\* the second result is not larger than the first.
C2_Monotone ==
  (pc[1] = "done" /\ pc[2] = "done") => FLeq(ret[2], ret[1])

\* C3: the value returned for a number x (not NaN) is a probability,
\* 0 <= result <= 1.
C3_Probability ==
  \A f \in Frames :
    (pc[f] = "done" /\ ~IsNaN(x[f]))
      => FLeq(Zero(0), ret[f]) /\ FLeq(ret[f], One)

\* C4: a call never performs more than MaxN - 1 (less than 2000) loop
\* iterations, and every call that has started ends (returns or raises).
C4_Terminates ==
  /\ [](\A f \in Frames : iters[f] < MaxN)
  /\ (pc[1] = "l34") ~> Finished(1)

\* A call whose loop ran into the bound on n has returned.
C4_Witness ==
  pc[1] = "done" /\ n[1] = MaxN /\ FGreater(FAbs(term[1]), Tolerance)

\* C5: in any interleaving of the steps of two calls, a call that has ended
\* has the result (value returned or error raised) that the same call has
\* when it runs alone, and calls with the same arguments have the same
\* result.
C5_Independent ==
  \A f \in Frames :
    Finished(f)
      => /\ ret[f] = Chi2Alone(x[f], df[f])
         /\ (pc[f] = "raised") = IsError(ret[f])
         /\ \A g \in Frames :
              (Finished(g) /\ x[g] = x[f] /\ df[g] = df[f]) => ret[g] = ret[f]

\* Two calls with x = 1.0 have both gone through the loop and returned.
C5_Witness ==
  /\ pc[1] = "done" /\ pc[2] = "done"
  /\ x[1] = One /\ x[2] = One
  /\ iters[1] > 1 /\ iters[2] > 1

\* C6: once verify_threshold has compared chi2_cdf_upper_tail(50.0, 15)
\* with 1e-5, the relative error is below 1 (per cent) and the branch taken
\* is "Threshold verified".
C6_Verified ==
  vpc \in {"l117", "l143", "l145", "done"}
    => FLess(relative_error, One) /\ verdict = "verified"

\* C7: no call raises an error.
C7_NoError == \A f \in Frames : pc[f] # "raised"

\* C8: a call with x > 0 that has ended has returned
\* 1 - exp(k ln t - t - lnGamma(k + 1)) * S, with S the partial sum over the
\* loop iterations it performed.
C8_ClosedForm ==
  \A f \in Frames :
    (Finished(f) /\ Positive(x[f]))
      => /\ pc[f] = "done"
         /\ ret[f] = UpperTail(t[f], k[f], PartialSum(t[f], k[f], iters[f]))

\* C9 as stated: a loop that has ended stopped on |term| <= 1e-15 or after
\* exactly MaxN = 2000 iterations, and it went on only from terms above
\* 1e-15.
C9_Stated ==
  \A f \in Frames :
    /\ iters[f] > 0 => FGreater(FAbs(prev_term[f]), Tolerance)
    /\ PastLoop(f) /\ term[f] # Unset
         => FLeq(FAbs(term[f]), Tolerance) \/ iters[f] = MaxN

\* C9, amended: the loop goes on only from a term above 1e-15, and a loop
\* that has ended stopped at a term that is not above 1e-15 (a NaN term
\* included) or after exactly MaxN - 1 = 1999 iterations, when n = MaxN.
C9_Stops ==
  \A f \in Frames :
    /\ iters[f] > 0 => FGreater(FAbs(prev_term[f]), Tolerance)
    /\ iters[f] <= MaxN - 1
    /\ PastLoop(f) /\ term[f] # Unset
         => \/ ~FGreater(FAbs(term[f]), Tolerance)
            \/ iters[f] = MaxN - 1 /\ n[f] = MaxN

\* The loop has been cut off by the bound on n.
C9_Witness ==
  pc[1] = "l57" /\ iters[1] = MaxN - 1 /\ FGreater(FAbs(term[1]), Tolerance)

\* What C10 says of a loop test of a call with x > 0, for a term that is
\* positive when Pos(term) holds.
LoopTest(f, Pos(_)) ==
  (pc[f] = "l51" /\ Positive(x[f]))
    => Pos(term[f]) /\ FGeq(sum_val[f], One) /\ n[f] = iters[f] + 1

\* What C10 says of a pass through the loop body of a call with x > 0, for
\* a new term that is smaller than the old one when Smaller(new, old) holds.
LoopPass(f, Smaller(_, _)) ==
  (pc[f] = "l51" /\ Positive(x[f]) /\ iters'[f] = iters[f] + 1)
    => /\ FGeq(sum_val'[f], sum_val[f])
       /\ FGreater(FAdd(k[f], FromInt(n[f])), t[f]) => Smaller(term'[f], term[f])

\* C10 as stated: at every loop test term > 0, sum_val >= 1 and
\* n = 1 + iterations; a pass does not decrease sum_val, and once k + n > t
\* the new term is strictly smaller than the old one.
C10_Stated ==
  /\ [](\A f \in Frames : LoopTest(f, Positive))
  /\ [][\A f \in Frames : LoopPass(f, FLess)]_vars

NonNegative(a) == FGeq(a, Zero(0))
SmallerIfFinite(new, old) == FLeq(new, old) /\ (IsInf(old) \/ FLess(new, old))

\* C10, amended: at every loop test term >= 0 (it can have underflowed to
\* 0.0), sum_val >= 1 and n = 1 + iterations; a pass does not decrease
\* sum_val, and once k + n > t the new term is not larger than the old one,
\* and strictly smaller unless the old one is infinite.
C10_LoopInvariant ==
  /\ [](\A f \in Frames : LoopTest(f, NonNegative))
  /\ [][\A f \in Frames : LoopPass(f, SmallerIfFinite)]_vars

\* A loop test past the largest term (k + n > t) at which the term has
\* overflowed to infinity.
C10_Witness ==
  /\ pc[1] = "l51" /\ Positive(x[1])
  /\ IsInf(term[1])
  /\ FGreater(FAdd(k[1], FromInt(n[1])), t[1])

====
